---- MODULE Spec2Model ----
(***************************************************************************)
(* A model of bot.py: the user store (load_users / save_users and the      *)
(* module-level set `users`), the /start and /admin handlers and the       *)
(* broadcast loop.  Handlers are coroutines: a handler runs atomically     *)
(* from one `await` to the next, and handlers of different updates may be  *)
(* interleaved at their awaits.                                            *)
(***************************************************************************)
EXTENDS Integers, Sequences, FiniteSets, TLC

VARIABLES
    users,        \* the module-level set `users` (bot.py:38)
    file,         \* the content of USERS_FILE on disk
    env,          \* the ADMIN_ID entry of os.environ
    env0,         \* history: ADMIN_ID as it was at process start
    h,            \* one record per handler invocation slot
    save_failed,  \* history: some save_users call has failed so far
    store         \* the last direct call of load_users / save_users (SpecStore)

vars == <<users, file, env, env0, h, save_failed, store>>

----------------------------------------------------------------------------
(* Bounds *)

MaxId == 2          \* user identifiers are 1..MaxId
MaxLen == 2         \* longest JSON array a file is given from outside
NumHandlers == 2    \* handler invocations that can be in progress at once

Handlers == 1..NumHandlers

----------------------------------------------------------------------------
(* Python values.  A value is tagged with its type so that a set can hold  *)
(* integers next to strings, as a Python set does.                         *)

PyInt(n) == [t |-> "int", v |-> n]
PyStr(n) == [t |-> "str", v |-> n]
PyList(n) == [t |-> "list", v |-> n]
None == [t |-> "none", v |-> 0]

Ids == {PyInt(i) : i \in 1..MaxId}

Hashable(x) == x.t \in {"int", "str"}

Range(s) == {s[i] : i \in 1..Len(s)}

\* list(users): the elements of a set in an order the caller cannot choose
Orders(S) ==
    {s \in [1..Cardinality(S) -> S] : \A i, j \in 1..Cardinality(S) : s[i] = s[j] => i = j}

----------------------------------------------------------------------------
(* The backing file.  st: the file is missing, cannot be opened, or has     *)
(* content; k: what the content is as JSON; items: the elements of an      *)
(* array, the keys of an object or the characters of a string.             *)

Missing == [st |-> "missing", k |-> "none", items |-> <<>>]
Unreadable == [st |-> "unreadable", k |-> "none", items |-> <<>>]
Content(k, items) == [st |-> "content", k |-> k, items |-> items]
NotJson == Content("invalid", <<>>)

\* json.load(f): the decoded value, or the exception it raises
json_load(f) ==
    IF f.k = "invalid"
    THEN [exc |-> TRUE, k |-> "none", items |-> <<>>]
    ELSE [exc |-> FALSE, k |-> f.k, items |-> f.items]

\* set(x) for a decoded JSON value x
py_set(x) ==
    IF x.k \in {"array", "object", "string"}
    THEN IF \A i \in 1..Len(x.items) : Hashable(x.items[i])
         THEN [exc |-> FALSE, val |-> Range(x.items)]
         ELSE [exc |-> TRUE, val |-> {}]
    ELSE [exc |-> TRUE, val |-> {}]

\* (line 21 as `if not os.path.exists(USERS_FILE)`)
load_try_inverted(f) ==
    IF f.st = "missing"
    THEN [exc |-> TRUE, val |-> {}]
    ELSE [exc |-> FALSE, val |-> {}]

\* the body of the try block of load_users
load_try(f) ==
    IF f.st # "missing"
    THEN IF f.st = "unreadable"
         THEN [exc |-> TRUE, val |-> {}]
         ELSE LET x == json_load(f)
              IN  IF x.exc THEN [exc |-> TRUE, val |-> {}] ELSE py_set(x)
    ELSE [exc |-> FALSE, val |-> {}]

load_users(f) ==
    LET r == load_try(f)
    IN  IF r.exc THEN [raised |-> FALSE, val |-> {}]
        ELSE [raised |-> FALSE, val |-> r.val]

\* json.dump(list(users), f): the array written
json_dump(u) == {Content("array", s) : s \in Orders(u)}

\* (save_users that never writes)
save_users_skipped(f, u) == {[file |-> f, ok |-> TRUE]}

\* save_users(users): the file afterwards and whether the write went through.
\* open() can fail (the file stays as it was) and the write can fail after
\* open() truncated the file.
save_users(f, u) ==
    {[file |-> c, ok |-> TRUE] : c \in json_dump(u)}
        \cup {[file |-> f, ok |-> FALSE], [file |-> NotJson, ok |-> FALSE]}

----------------------------------------------------------------------------
(* The environment variable ADMIN_ID: unset, a decimal number, or text     *)
(* that int() rejects.                                                     *)

EnvUnset == [set |-> FALSE, num |-> FALSE, v |-> 0]
EnvNum(n) == [set |-> TRUE, num |-> TRUE, v |-> n]
EnvBad == [set |-> TRUE, num |-> FALSE, v |-> 0]

EnvValues == {EnvUnset, EnvBad} \cup {EnvNum(i) : i \in 1..MaxId}

\* the environment the process is started with
StartEnvs == {EnvUnset, EnvBad, EnvNum(1)}

\* os.getenv('ADMIN_ID', '0')
getenv_ADMIN_ID(e) == IF e.set THEN [num |-> e.num, v |-> e.v] ELSE [num |-> TRUE, v |-> 0]

\* int(text): the number, or ValueError
int_of(text) == IF text.num THEN [exc |-> FALSE, v |-> text.v] ELSE [exc |-> TRUE, v |-> 0]

\* (line 66 at module level: the value read once, at import)
read_admin_id_at_startup == int_of(getenv_ADMIN_ID(env0))

\* admin_id = int(os.getenv('ADMIN_ID', '0')), evaluated in the handler
read_admin_id == int_of(getenv_ADMIN_ID(env))

\* (line 68 with == for !=)
not_authorized_inverted(user_id, admin_id) == user_id = PyInt(admin_id)

\* user_id != admin_id
not_authorized(user_id, admin_id) == user_id # PyInt(admin_id)

----------------------------------------------------------------------------
(* Command arguments and the texts of delivery errors, as word sequences.  *)

ArgLists == {<<>>, <<"hello", "all">>}

\* (line 74 with an empty separator: ''.join(context.args))
join_no_separator(a) == a

RECURSIVE join(_)
\* ' '.join(context.args)
join(a) ==
    IF Len(a) = 0 THEN <<>>
    ELSE IF Len(a) = 1 THEN <<a[1]>>
    ELSE <<a[1], " ">> \o join(Tail(a))

BlockedText == <<"Forbidden:", "bot", "was", "blocked", "by", "the", "user">>
BlockedCaps == <<"Forbidden:", "Bot", "Was", "BLOCKED">>
NotFoundText == <<"Bad", "Request:", "User", "not", "found">>
ChatNotFound == <<"Bad", "Request:", "chat", "not", "found">>
TimedOut == <<"Timed", "out">>

ErrTexts == {BlockedText, BlockedCaps, NotFoundText, ChatNotFound, TimedOut}

\* str.lower(), word by word
lower_word(w) ==
    CASE w = "Bot" -> "bot"
      [] w = "Was" -> "was"
      [] w = "BLOCKED" -> "blocked"
      [] w = "User" -> "user"
      [] w = "Bad" -> "bad"
      [] w = "Request:" -> "request:"
      [] w = "Forbidden:" -> "forbidden:"
      [] w = "Timed" -> "timed"
      [] OTHER -> w

lower(s) == [i \in 1..Len(s) |-> lower_word(s[i])]

\* pat in s
contains(s, pat) ==
    \E i \in 0..(Len(s) - Len(pat)) : \A j \in 1..Len(pat) : s[i + j] = pat[j]

\* (line 100 without .lower())
is_inactive_case_sensitive(e) ==
    contains(e, <<"bot", "was", "blocked">>) \/ contains(e, <<"user", "not", "found">>)

\* (line 101 outside the if: every failure prunes)
is_inactive_any_failure(e) == TRUE

\* "bot was blocked" in str(e).lower() or "user not found" in str(e).lower()
is_inactive(e) ==
    contains(lower(e), <<"bot", "was", "blocked">>)
        \/ contains(lower(e), <<"user", "not", "found">>)

----------------------------------------------------------------------------
(* Handler invocations.                                                    *)

NoReply == [t |-> "none", n1 |-> 0, n2 |-> 0, n3 |-> 0]
Welcome(u) == [t |-> "welcome", n1 |-> u.v, n2 |-> 0, n3 |-> 0]
Denied == [t |-> "denied", n1 |-> 0, n2 |-> 0, n3 |-> 0]
Help(n) == [t |-> "help", n1 |-> n, n2 |-> 0, n3 |-> 0]
Broadcasting == [t |-> "broadcasting", n1 |-> 0, n2 |-> 0, n3 |-> 0]
\* result_text: Successful, Failed, Active users
ResultText(s, f, a) == [t |-> "result", n1 |-> s, n2 |-> f, n3 |-> a]

\* A handler that is not running; the fields are the locals of start, admin
\* and broadcast_to_users, then the history of the invocation.
Idle ==
    [pc |-> "idle", cmd |-> "none", user_id |-> None, args |-> <<>>,
     admin_id |-> 0, message |-> <<>>,
     successful_sends |-> 0, failed_sends |-> 0,
     copy |-> {}, todo |-> {}, cur |-> None,
     reply |-> NoReply,
     exc |-> "none",       \* the call whose exception ended the handler
     \* history
     start_users |-> {},   \* `users` when start was called
     snap |-> {},          \* `users` when the initial status reply returned
     delivered |-> {},     \* identifiers whose send returned
     perm_failed |-> {},   \* identifiers whose send raised a permanent failure
     temp_failed |-> {},   \* identifiers whose send raised anything else
     n_attempts |-> 0,     \* send_message calls made
     saved |-> "none",     \* how this invocation's save_users call went
     written |-> {}]       \* the set the broadcast run passed to save_users

Step(p, r) == [h EXCEPT ![p] = r]

\* the end of handler invocation r, whose last call `what` returned (ok) or
\* raised: an uncaught exception is handed to error_handler
Ended(r, ok, what) ==
    IF ok THEN Idle
    ELSE [Idle EXCEPT !.pc = "error", !.exc = what, !.cmd = r.cmd,
                      !.user_id = r.user_id]

SaveStatus(s) == IF s.ok THEN "ok" ELSE "failed"

InBroadcast(r) == r.pc \in {"bc_status", "bc_send", "bc_edit"}

----------------------------------------------------------------------------
(* start (bot.py:40-61)                                                    *)

\* (line 46 as an assignment: users = {user_id})
users_add_replaces(S, u) == {u}

\* users.add(user_id)
users_add(S, u) == S \cup {u}

\* (line 61 moved before lines 46-47: the greeting is sent first)
StartCall_reply_first(p, u) ==
    /\ h[p].pc = "idle"
    /\ h' = Step(p, [Idle EXCEPT
               !.pc = "start_reply", !.cmd = "start", !.user_id = u,
               !.reply = Welcome(u), !.start_users = users])
    /\ UNCHANGED <<users, file, save_failed, env, env0, store>>

\* lines 42-61 up to the await: add, save, build the greeting, send it
StartCall(p, u) ==
    /\ h[p].pc = "idle"
    /\ LET nu == users_add(users, u)
       IN  \E s \in save_users(file, nu) :
             /\ users' = nu
             /\ file' = s.file
             /\ save_failed' = (save_failed \/ ~s.ok)
             /\ h' = Step(p, [Idle EXCEPT
                        !.pc = "start_reply", !.cmd = "start", !.user_id = u,
                        !.reply = Welcome(u), !.start_users = users,
                        !.saved = SaveStatus(s)])
    /\ UNCHANGED <<env, env0, store>>

\* reply_text returns or raises; either way the handler is over
StartReturn(p, ok) ==
    /\ h[p].pc = "start_reply"
    /\ h' = Step(p, Ended(h[p], ok, "start_reply"))
    /\ UNCHANGED <<users, file, env, env0, save_failed, store>>

----------------------------------------------------------------------------
(* broadcast_to_users (bot.py:84-115)                                      *)

\* users.copy()
users_copy(S) == S

\* (line 101 left out: nothing is discarded)
users_discard_nothing(S, u) == S

\* users.discard(user_id)
users_discard(S, u) == S \ {u}

\* (line 115 moved before line 104: the status is edited, nothing saved yet)
Finish_edit_before_save(p, r, nu) ==
    /\ users' = nu
    /\ h' = Step(p, [r EXCEPT
               !.pc = "bc_edit", !.cur = None,
               !.reply = ResultText(r.successful_sends, r.failed_sends,
                                    Cardinality(nu))])
    /\ UNCHANGED <<file, save_failed>>

\* (save_users without its except clause: a failed write ends the handler)
Finish_save_error_aborts(p, r, nu) ==
    \E s \in save_users(file, nu) :
      /\ users' = nu
      /\ file' = s.file
      /\ save_failed' = (save_failed \/ ~s.ok)
      /\ h' = Step(p, IF s.ok
                      THEN [r EXCEPT
                              !.pc = "bc_edit", !.cur = None, !.saved = "ok",
                              !.written = nu,
                              !.reply = ResultText(r.successful_sends,
                                                   r.failed_sends, Cardinality(nu))]
                      ELSE Ended(r, FALSE, "save_users"))

\* (line 112 with len(users.copy() taken at line 92) minus the removals)
Finish_counts_copy(p, r, nu) ==
    \E s \in save_users(file, nu) :
      /\ users' = nu
      /\ file' = s.file
      /\ save_failed' = (save_failed \/ ~s.ok)
      /\ h' = Step(p, [r EXCEPT
                 !.pc = "bc_edit", !.cur = None, !.saved = SaveStatus(s),
                 !.written = nu,
                 !.reply = ResultText(r.successful_sends, r.failed_sends,
                                      Cardinality(r.copy \ r.perm_failed))])

\* lines 103-115 up to the await: save, build result_text, edit the status
Finish(p, r, nu) ==
    \E s \in save_users(file, nu) :
      /\ users' = nu
      /\ file' = s.file
      /\ save_failed' = (save_failed \/ ~s.ok)
      /\ h' = Step(p, [r EXCEPT
                 !.pc = "bc_edit", !.cur = None, !.saved = SaveStatus(s),
                 !.written = nu,
                 !.reply = ResultText(r.successful_sends, r.failed_sends,
                                      Cardinality(nu))])

\* (lines 92-94 as a gather: every remaining send is started together)
NextSend_all_at_once(p, r, nu) ==
    \E x \in r.todo :
      /\ users' = nu
      /\ h' = Step(p, [r EXCEPT
                 !.pc = "bc_send", !.cur = x, !.todo = {},
                 !.n_attempts = r.n_attempts + Cardinality(r.todo)])
      /\ UNCHANGED <<file, save_failed>>

\* lines 92-94: the for loop takes the next identifier of the copy and sends
NextSend(p, r, nu) ==
    \E x \in r.todo :
      /\ users' = nu
      /\ h' = Step(p, [r EXCEPT
                 !.pc = "bc_send", !.cur = x, !.todo = r.todo \ {x},
                 !.n_attempts = r.n_attempts + 1])
      /\ UNCHANGED <<file, save_failed>>

\* (the try around the whole loop: the first failure ends it)
Loop_stops_on_failure(p, r, nu) ==
    IF r.todo = {} \/ r.failed_sends > 0 THEN Finish(p, r, nu) ELSE NextSend(p, r, nu)

\* (the loop over `users` itself, not over the copy)
Loop_over_live_set(p, r, nu) ==
    LET live == [r EXCEPT !.todo = nu \ (r.delivered \cup r.perm_failed \cup r.temp_failed)]
    IN  IF live.todo = {} THEN Finish(p, live, nu) ELSE NextSend(p, live, nu)

\* line 92: the loop goes on while the copy has identifiers left
Loop(p, r, nu) ==
    IF r.todo = {} THEN Finish(p, r, nu) ELSE NextSend(p, r, nu)

\* line 90 returns: the run is aborted if the reply raised, else the copy is
\* taken and the loop begins
StatusReturn(p, ok) ==
    /\ h[p].pc = "bc_status"
    /\ IF ok
       THEN LET c == users_copy(users)
            IN  Loop(p, [h[p] EXCEPT !.copy = c, !.todo = c, !.snap = users], users)
       ELSE /\ h' = Step(p, Ended(h[p], FALSE, "status_reply"))
            /\ UNCHANGED <<users, file, save_failed>>
    /\ UNCHANGED <<env, env0, store>>

\* line 94 returns (line 95, then the loop)
SendOk(p) ==
    /\ h[p].pc = "bc_send"
    /\ Loop(p, [h[p] EXCEPT
                  !.successful_sends = h[p].successful_sends + 1,
                  !.delivered = h[p].delivered \cup {h[p].cur}], users)
    /\ UNCHANGED <<env, env0, store>>

\* line 94 raises an error with text e (lines 96-101, then the loop);
\* permanent: the text is one the platform gives for a lost recipient
SendFail(p, e, permanent) ==
    /\ h[p].pc = "bc_send"
    /\ LET x == h[p].cur
           nu == IF is_inactive(e) THEN users_discard(users, x) ELSE users
       IN  Loop(p, [h[p] EXCEPT
                      !.failed_sends = h[p].failed_sends + 1,
                      !.perm_failed = IF permanent THEN h[p].perm_failed \cup {x}
                                      ELSE h[p].perm_failed,
                      !.temp_failed = IF permanent THEN h[p].temp_failed
                                      ELSE h[p].temp_failed \cup {x}], nu)
    /\ UNCHANGED <<env, env0, store>>

\* line 115 returns or raises
EditReturn(p, ok) ==
    /\ h[p].pc = "bc_edit"
    /\ h' = Step(p, Ended(h[p], ok, "edit_text"))
    /\ UNCHANGED <<users, file, env, env0, save_failed, store>>

----------------------------------------------------------------------------
(* admin (bot.py:63-82)                                                    *)

\* (admin beginning, as start does, with users.add(user_id))
AdminCall_registers_sender(p, u, a) ==
    /\ h[p].pc = "idle"
    /\ LET aid == read_admin_id
           r == [Idle EXCEPT
                   !.cmd = "admin", !.user_id = u, !.args = a,
                   !.admin_id = aid.v]
       IN  h' = Step(p,
                 IF aid.exc THEN Ended(r, FALSE, "int")
                 ELSE IF not_authorized(u, aid.v)
                 THEN [r EXCEPT !.pc = "deny_reply", !.reply = Denied]
                 ELSE IF a # <<>>
                 THEN [r EXCEPT !.pc = "bc_status", !.message = join(a),
                                !.reply = Broadcasting]
                 ELSE [r EXCEPT !.pc = "help_reply",
                                !.reply = Help(Cardinality(users))])
    /\ users' = users_add(users, u)
    /\ UNCHANGED <<file, env, env0, save_failed, store>>

\* lines 65-90 up to the first await
AdminCall(p, u, a) ==
    /\ h[p].pc = "idle"
    /\ LET aid == read_admin_id
           r == [Idle EXCEPT
                   !.cmd = "admin", !.user_id = u, !.args = a,
                   !.admin_id = aid.v]
       IN  h' = Step(p,
                 IF aid.exc THEN Ended(r, FALSE, "int")
                 ELSE IF not_authorized(u, aid.v)
                 THEN [r EXCEPT !.pc = "deny_reply", !.reply = Denied]
                 ELSE IF a # <<>>
                 THEN [r EXCEPT !.pc = "bc_status", !.message = join(a),
                                !.reply = Broadcasting]
                 ELSE [r EXCEPT !.pc = "help_reply",
                                !.reply = Help(Cardinality(users))])
    /\ UNCHANGED <<users, file, env, env0, save_failed, store>>

\* line 69 or line 77 returns or raises
AdminReturn(p, ok) ==
    /\ h[p].pc \in {"deny_reply", "help_reply"}
    /\ h' = Step(p, Ended(h[p], ok, "admin_reply"))
    /\ UNCHANGED <<users, file, env, env0, save_failed, store>>

----------------------------------------------------------------------------
(* error_handler (bot.py:117-119)                                          *)

\* logs context.error; the update is dropped and the application goes on
ErrorHandler(p) ==
    /\ h[p].pc = "error"
    /\ h' = Step(p, Idle)
    /\ UNCHANGED <<users, file, env, env0, save_failed, store>>

----------------------------------------------------------------------------
(* The process: started with some file on disk and some environment.       *)

StartFiles ==
    {Missing, Unreadable, NotJson, Content("array", <<PyInt(1), PyInt(1)>>)}
        \cup UNION {json_dump(S) : S \in SUBSET Ids}

NoStore == [op |-> "none", arg |-> {}, ok |-> FALSE, ret |-> {}, raised |-> FALSE]

\* line 38: users = load_users()
Init ==
    /\ file \in StartFiles
    /\ users = load_users(file).val
    /\ env \in StartEnvs
    /\ env0 = env
    /\ h = [p \in Handlers |-> Idle]
    /\ save_failed = FALSE
    /\ store = NoStore

\* the texts the platform gives for a recipient that blocked the bot or is
\* gone, in any letter case
PermanentTexts == {BlockedText, BlockedCaps, NotFoundText}

\* one step of handler p: from one await to the next
HandlerStep(p) ==
    \/ \E u \in Ids : StartCall(p, u)
    \/ \E ok \in BOOLEAN : StartReturn(p, ok)
    \/ \E u \in Ids, a \in ArgLists : AdminCall(p, u, a)
    \/ \E ok \in BOOLEAN : AdminReturn(p, ok)
    \/ \E ok \in BOOLEAN : StatusReturn(p, ok)
    \/ SendOk(p)
    \/ \E e \in ErrTexts : SendFail(p, e, e \in PermanentTexts)
    \/ \E ok \in BOOLEAN : EditReturn(p, ok)
    \/ ErrorHandler(p)

\* updates handled concurrently: handlers interleave at their awaits
Next == \E p \in Handlers : HandlerStep(p)

Spec == Init /\ [][Next]_vars

\* updates handled one at a time: a handler runs while the others are idle
NextSequential ==
    \E p \in Handlers :
        /\ \A q \in Handlers \ {p} : h[q].pc = "idle"
        /\ HandlerStep(p)

SpecSequential == Init /\ [][NextSequential]_vars

----------------------------------------------------------------------------
(* load_users and save_users called directly, on any file.                 *)

JsonItems == Ids \cup {PyStr(1), PyList(0)}

AllFiles ==
    {Missing, Unreadable, NotJson,
     Content("number", <<>>), Content("null", <<>>),
     Content("object", <<>>), Content("object", <<PyStr(1)>>),
     Content("string", <<PyStr(2), PyStr(3)>>)}
        \cup {Content("array", s) : s \in UNION {[1..n -> JsonItems] : n \in 0..MaxLen}}

InitStore ==
    /\ file \in AllFiles
    /\ users = load_users(file).val
    /\ env = EnvUnset
    /\ env0 = env
    /\ h = [p \in Handlers |-> Idle]
    /\ save_failed = FALSE
    /\ store = NoStore

CallSave(S) ==
    /\ \E s \in save_users(file, S) :
         /\ file' = s.file
         /\ store' = [op |-> "save", arg |-> S, ok |-> s.ok, ret |-> {},
                      raised |-> FALSE]
    /\ UNCHANGED <<users, env, env0, h, save_failed>>

\* load_after_save: the call before was a save that went through
CallLoad ==
    /\ LET r == load_users(file)
       IN  store' = [op |-> IF store.op = "save" /\ store.ok
                            THEN "load_after_save" ELSE "load",
                     arg |-> store.arg, ok |-> TRUE, ret |-> r.val,
                     raised |-> r.raised]
    /\ UNCHANGED <<users, file, env, env0, h, save_failed>>

\* something else rewrites, removes or locks the file
AlterFile(f) ==
    /\ f # file
    /\ file' = f
    /\ store' = [op |-> "alter", arg |-> {}, ok |-> TRUE, ret |-> {},
                 raised |-> FALSE]
    /\ UNCHANGED <<users, env, env0, h, save_failed>>

NextStore ==
    \/ \E S \in SUBSET Ids : CallSave(S)
    \/ CallLoad
    \/ \E f \in AllFiles : AlterFile(f)

SpecStore == InitStore /\ [][NextStore]_vars

----------------------------------------------------------------------------
(* The environment can be changed while the process runs (os.environ is a  *)
(* mutable mapping that os.getenv reads on every call).                    *)

SetEnv(e) ==
    /\ e # env
    /\ env' = e
    /\ UNCHANGED <<users, file, env0, h, save_failed, store>>

NextEnv ==
    \/ NextSequential
    \/ \E e \in EnvValues : SetEnv(e)

SpecEnv == Init /\ [][NextEnv]_vars

----------------------------------------------------------------------------
(* Vocabulary of the properties.                                           *)

\* ADMIN_ID names an identifier (unset counts as 0)
HasAdmin(e) == ~e.set \/ e.num
AdminOf(e) == IF e.set THEN e.v ELSE 0

\* the identifiers whose delivery attempt of run r has come back
Attempted(r) == r.delivered \cup r.perm_failed \cup r.temp_failed
Failed(r) == r.perm_failed \cup r.temp_failed

\* the file is a JSON array listing exactly the elements of S, each once
FileHolds(S) ==
    /\ file.st = "content"
    /\ file.k = "array"
    /\ Range(file.items) = S
    /\ Len(file.items) = Cardinality(S)

\* what the file lists
FileSet == IF file.st = "content" /\ file.k = "array" THEN Range(file.items) ELSE {}

AllIdle == \A p \in Handlers : h[p].pc = "idle"

IsIntArray(f) ==
    /\ f.st = "content"
    /\ f.k = "array"
    /\ \A i \in 1..Len(f.items) : f.items[i].t = "int"

----------------------------------------------------------------------------
(* C1 *)

\* C1: an /admin command whose sender is not the configured admin identifier
\* is answered with the denial message, starts no broadcast (no status
\* message, no delivery attempt) and changes neither `users` nor the file,
\* from the call to the end of the handler, whatever its arguments are.
C1_NonAdminDenied ==
    [][\A p \in Handlers :
         /\ (/\ HasAdmin(env)
             /\ h[p].pc = "idle"
             /\ h'[p].cmd = "admin"
             /\ h'[p].user_id # PyInt(AdminOf(env)))
              => /\ h'[p].pc = "deny_reply"
                 /\ h'[p].reply = Denied
                 /\ h'[p].n_attempts = 0
                 /\ users' = users
                 /\ file' = file
         /\ h[p].pc = "deny_reply"
              => /\ h'[p].pc \in {"idle", "error"}
                 /\ users' = users
                 /\ file' = file]_vars

\* a non-admin sender has been denied a command that had arguments, with
\* identifiers in the store
C1_Witness ==
    \E p \in Handlers :
        /\ h[p].pc = "deny_reply"
        /\ h[p].args # <<>>
        /\ h[p].user_id # PyInt(AdminOf(env))
        /\ h[p].reply = Denied
        /\ users # {}

----------------------------------------------------------------------------
(* C2 *)

\* C2: after start(U) called with store S, the store is exactly S \cup {U}:
\* one larger when U was not in S, the same size when it was.
C2_StartIsIdempotentInsert ==
    \A p \in Handlers :
        h[p].pc = "start_reply" =>
            LET S == h[p].start_users
                U == h[p].user_id
            IN  /\ users = S \cup {U}
                /\ U \notin S => Cardinality(users) = Cardinality(S) + 1
                /\ U \in S => Cardinality(users) = Cardinality(S)

\* start was called for an identifier already stored next to another one
C2_Witness ==
    \E p \in Handlers :
        /\ h[p].pc = "start_reply"
        /\ h[p].user_id \in h[p].start_users
        /\ h[p].start_users # {h[p].user_id}

----------------------------------------------------------------------------
(* C3 *)

\* what a run that has reached its final edit must show, but for the file
C3_RunResult(r) ==
    LET S == r.snap
    IN  /\ Attempted(r) = S
        /\ r.delivered \cap Failed(r) = {}
        /\ r.perm_failed \cap r.temp_failed = {}
        /\ r.successful_sends = Cardinality(r.delivered)
        /\ r.failed_sends = Cardinality(Failed(r))
        /\ users = S \ r.perm_failed
        /\ r.reply = ResultText(Cardinality(r.delivered), Cardinality(Failed(r)),
                                Cardinality(S \ r.perm_failed))

\* C3 as stated: a broadcast run with no other handler interleaved, from
\* store S, ends with the success and failure counts of its deliveries, the
\* store S minus the permanently failed identifiers, the file holding
\* exactly that set, and a status text with the two counts and that size.
C3_Original ==
    \A p \in Handlers :
        h[p].pc = "bc_edit" => C3_RunResult(h[p]) /\ FileHolds(users)

\* C3 as amended: the same, the file holding that set when the run's save
\* went through.
C3_BroadcastResult ==
    \A p \in Handlers :
        h[p].pc = "bc_edit" =>
            /\ C3_RunResult(h[p])
            /\ h[p].saved = "ok" => FileHolds(users)

\* a run over two identifiers: one delivered, one pruned, and saved
C3_Witness ==
    \E p \in Handlers :
        /\ h[p].pc = "bc_edit"
        /\ h[p].saved = "ok"
        /\ h[p].delivered # {}
        /\ h[p].perm_failed # {}
        /\ h[p].reply = ResultText(1, 1, 1)

----------------------------------------------------------------------------
(* C4 *)

\* C4: in a broadcast run, a delivery that fails with a text holding neither
\* permanent-failure substring adds one to the failure counter and removes
\* no identifier from `users`; a step of a run removes an identifier only
\* if it is the one whose delivery has just failed permanently.
C4_OnlyPermanentFailuresPrune ==
    [][\A p \in Handlers :
         (InBroadcast(h[p]) /\ h'[p] # h[p]) =>
            LET x == h[p].cur
            IN  /\ x \in h'[p].temp_failed
                     => /\ h'[p].failed_sends = h[p].failed_sends + 1
                        /\ h'[p].successful_sends = h[p].successful_sends
                        /\ users' = users
                /\ \A y \in users \ users' :
                     /\ y = x
                     /\ h[p].pc = "bc_send"
                     /\ y \in h'[p].perm_failed]_vars

\* a delivery failed for another reason and its identifier is still stored
C4_Witness ==
    \E p \in Handlers :
        /\ InBroadcast(h[p])
        /\ h[p].failed_sends > 0
        /\ \E x \in h[p].temp_failed : x \in users

----------------------------------------------------------------------------
(* C5 *)

\* the identifier whose delivery is outstanding
Outstanding(r) == IF r.pc = "bc_send" THEN {r.cur} ELSE {}

C5_OneAttemptEach(r) ==
    /\ r.delivered \cap Failed(r) = {}
    /\ r.perm_failed \cap r.temp_failed = {}
    /\ Outstanding(r) \cap Attempted(r) = {}
    /\ Attempted(r) \cup Outstanding(r) \subseteq r.snap
    /\ r.n_attempts = Cardinality(Attempted(r) \cup Outstanding(r))
    /\ r.successful_sends + r.failed_sends = Cardinality(Attempted(r))
    /\ r.pc = "bc_edit"
         => /\ Attempted(r) = r.snap
            /\ r.n_attempts = Cardinality(r.snap)
            /\ r.successful_sends + r.failed_sends = Cardinality(r.snap)

\* C5: a failed delivery never aborts a run: every identifier of the
\* snapshot gets exactly one attempt (no retry, none skipped), a run that is
\* sending goes on to the next send or to its final edit, and a completed
\* run has success count + failed count = snapshot size, under any
\* interleaving with other handlers.
C5_FailureNeverAborts ==
    /\ [](\A p \in Handlers :
            h[p].pc \in {"bc_send", "bc_edit"} => C5_OneAttemptEach(h[p]))
    /\ [][\A p \in Handlers :
            h[p].pc = "bc_send" => h'[p].pc \in {"bc_send", "bc_edit"}]_vars

\* a run over two identifiers completed after a failure, while another
\* broadcast run was in progress
C5_Witness ==
    \E p, q \in Handlers :
        /\ p # q
        /\ h[p].pc = "bc_edit"
        /\ Cardinality(h[p].snap) = 2
        /\ h[p].failed_sends > 0
        /\ h[p].successful_sends > 0
        /\ InBroadcast(h[q])

----------------------------------------------------------------------------
(* C6 *)

\* C6: the identifiers a run attempts are exactly `users` as it was when the
\* run took its copy: attempted, outstanding and still-to-do identifiers
\* always make up that set, whatever is added to or removed from `users`
\* afterwards, and a completed run has attempted all of it.
C6_AttemptsAreTheSnapshot ==
    \A p \in Handlers :
        h[p].pc \in {"bc_send", "bc_edit"} =>
            /\ h[p].copy = h[p].snap
            /\ Attempted(h[p]) \cup Outstanding(h[p]) \cup h[p].todo = h[p].snap
            /\ h[p].todo \cap (Attempted(h[p]) \cup Outstanding(h[p])) = {}
            /\ h[p].pc = "bc_edit" => Attempted(h[p]) = h[p].snap

\* a completed run: an identifier added after its copy got no attempt, and
\* an identifier then removed by another run was still delivered to
C6_Witness ==
    \E p \in Handlers :
        /\ h[p].pc = "bc_edit"
        /\ users \ h[p].snap # {}
        /\ (h[p].delivered \ users) # {}

----------------------------------------------------------------------------
(* C7 *)

\* C7: as long as every save has gone through, the file lists exactly
\* `users` right after each save, and whenever no handler is in progress.
C7_FileFollowsStore ==
    /\ []((~save_failed /\ AllIdle) => FileSet = users)
    /\ [][\A p \in Handlers :
            (/\ ~save_failed'
             /\ h'[p] # h[p]
             /\ h'[p].pc \in {"start_reply", "bc_edit"})
              => (FileHolds(users))']_vars

\* a run has pruned an identifier and saved while a start handler, which
\* saved before it, is still in progress
C7_Witness ==
    \E p, q \in Handlers :
        /\ ~save_failed
        /\ h[p].pc = "bc_edit"
        /\ h[p].perm_failed # {}
        /\ h[q].pc = "start_reply"
        /\ h[q].user_id \in h[p].snap
        /\ FileHolds(users)

----------------------------------------------------------------------------
(* C8 *)

\* C8: load_users() right after a save_users(S) that went through, the file
\* untouched in between, returns S, for every set S of integer identifiers.
C8_SaveLoadRoundTrip ==
    store.op = "load_after_save" =>
        /\ ~store.raised
        /\ store.ret = store.arg

\* a set of two identifiers has been saved and loaded back
C8_Witness ==
    /\ store.op = "load_after_save"
    /\ Cardinality(store.arg) = 2
    /\ store.ret = store.arg

----------------------------------------------------------------------------
(* C9 *)

\* C9: whatever the file is, load_users() returns without raising and its
\* result is a set of integers: the listed set when the file is a JSON
\* array of integers, the empty set in every other case.
C9_LoadYieldsIntegers ==
    store.op \in {"load", "load_after_save"} =>
        /\ ~store.raised
        /\ \A x \in store.ret : x.t = "int"
        /\ IsIntArray(file) => store.ret = Range(file.items)
        /\ ~IsIntArray(file) => store.ret = {}

----------------------------------------------------------------------------
(* C10 *)

\* C10 as stated: every /admin command of the process is checked against the
\* admin identifier the environment gave at process start.
C10_Original ==
    \A p \in Handlers :
        (h[p].cmd = "admin" /\ h[p].pc # "error") =>
            /\ HasAdmin(env0)
            /\ (h[p].pc = "deny_reply") = (h[p].user_id # PyInt(AdminOf(env0)))

\* C10 as amended: every /admin command is checked against the identifier
\* ADMIN_ID names at the moment the command is handled (and raises when it
\* names none then).
C10_AdminReadPerCommand ==
    [][\A p \in Handlers :
         (h[p].pc = "idle" /\ h'[p].cmd = "admin") =>
            IF HasAdmin(env)
            THEN /\ h'[p].pc # "error"
                 /\ (h'[p].pc = "deny_reply") = (h'[p].user_id # PyInt(AdminOf(env)))
                 /\ h'[p].admin_id = AdminOf(env)
            ELSE h'[p].pc = "error" /\ h'[p].exc = "int"]_vars

\* after the environment changed, a sender that was not the admin at
\* process start has been accepted as the admin
C10_Witness ==
    \E p \in Handlers :
        /\ HasAdmin(env0)
        /\ h[p].cmd = "admin"
        /\ h[p].pc \in {"help_reply", "bc_status"}
        /\ h[p].user_id # PyInt(AdminOf(env0))
        /\ h[p].user_id = PyInt(AdminOf(env))

----------------------------------------------------------------------------
(* C11 *)

\* m is the tokens of a in order with exactly one space between neighbours
SpaceJoined(a, m) ==
    /\ Len(m) = 2 * Len(a) - 1
    /\ \A i \in 1..Len(m) :
         m[i] = IF i % 2 = 1 THEN a[(i + 1) \div 2] ELSE " "

Runs == {q \in Handlers : InBroadcast(h[q])}
RunsAfter == {q \in Handlers : InBroadcast(h'[q])}

\* C11: an /admin command from the admin identifier without arguments is
\* answered with the help message showing Cardinality(users), attempts no
\* delivery, starts no run and leaves `users` and the file as they were until
\* the handler is over; with arguments it starts exactly one broadcast run,
\* whose message is the arguments joined by single spaces.
C11_AdminHelpOrBroadcast ==
    [][\A p \in Handlers :
         /\ (/\ HasAdmin(env)
             /\ h[p].pc = "idle"
             /\ h'[p].cmd = "admin"
             /\ h'[p].user_id = PyInt(AdminOf(env)))
              => /\ users' = users
                 /\ file' = file
                 /\ IF h'[p].args = <<>>
                    THEN /\ h'[p].pc = "help_reply"
                         /\ h'[p].reply = Help(Cardinality(users))
                         /\ h'[p].n_attempts = 0
                         /\ RunsAfter = Runs
                    ELSE /\ h'[p].pc = "bc_status"
                         /\ h'[p].reply = Broadcasting
                         /\ SpaceJoined(h'[p].args, h'[p].message)
                         /\ h'[p].n_attempts = 0
                         /\ RunsAfter = Runs \cup {p}
                         /\ p \notin Runs
         /\ h[p].pc = "help_reply"
              => /\ h'[p].pc \in {"idle", "error"}
                 /\ h'[p].n_attempts = 0
                 /\ RunsAfter = Runs
                 /\ users' = users
                 /\ file' = file]_vars

\* a run started by the admin is about to report, with the message built
\* from two tokens
C11_Witness ==
    \E p \in Handlers :
        /\ h[p].pc = "bc_status"
        /\ h[p].user_id = PyInt(AdminOf(env))
        /\ h[p].args = <<"hello", "all">>
        /\ h[p].message = <<"hello", " ", "all">>

----------------------------------------------------------------------------
(* C12 *)

\* where run r is, against what it has done so far
C12_Order(r) ==
    /\ r.pc = "bc_status"
         => /\ r.copy = {} /\ r.todo = {} /\ r.snap = {}
            /\ r.cur = None
            /\ r.n_attempts = 0
            /\ Attempted(r) = {}
            /\ r.saved = "none"
    /\ r.pc = "bc_send"
         => /\ r.cur \in r.copy
            /\ r.saved = "none"
    /\ r.pc = "bc_edit"
         => /\ r.saved # "none"
            /\ r.cur = None
            /\ r.todo = {}
            /\ Attempted(r) = r.copy
            /\ r.n_attempts = Cardinality(r.copy)

\* the steps of run p that end it early or late
C12_Ends(p) ==
    /\ (h[p].pc = "idle" /\ h'[p].pc = "bc_status")
         => users' = users /\ file' = file
    /\ (h[p].pc = "bc_status" /\ h'[p] # h[p])
         => /\ h'[p].pc \in {"bc_send", "bc_edit", "error"}
            /\ h'[p].pc = "error"
                 => /\ h'[p].exc = "status_reply"
                    /\ users' = users
                    /\ file' = file
    /\ (h[p].pc = "bc_edit" /\ h'[p] # h[p])
         => /\ h'[p].pc \in {"idle", "error"}
            /\ h'[p].pc = "error" => h'[p].exc = "edit_text"
            /\ users' = users
            /\ file' = file

\* C12 as stated: a run's status reply returns before its copy is taken and
\* before any delivery attempt, all its attempts return before it saves, it
\* saves before it attempts the final edit; a failed status reply leaves no
\* attempt made and `users` and the file as they were, and when the final
\* edit is attempted the run has written the pruned `users` to the file.
C12_Original ==
    \A p \in Handlers :
        /\ C12_Order(h[p])
        /\ h[p].pc = "bc_edit" => h[p].saved = "ok"

\* C12 as amended: the same order; when the final edit is attempted the run
\* has called save_users on the pruned `users`, and the file got exactly
\* that set if the write went through.
C12_RunOrder ==
    /\ [](\A p \in Handlers : C12_Order(h[p]))
    /\ [][\A p \in Handlers :
            /\ C12_Ends(p)
            /\ (h[p].pc # "bc_edit" /\ h'[p].pc = "bc_edit")
                 => /\ h'[p].written = users'
                    /\ h'[p].saved = "ok" => (FileHolds(h[p].written))']_vars

\* one run was ended by its status reply failing, another by its final edit
\* failing
C12_Witness ==
    \E p, q \in Handlers :
        /\ h[p].pc = "error" /\ h[p].exc = "status_reply"
        /\ h[q].pc = "error" /\ h[q].exc = "edit_text"

----------------------------------------------------------------------------
(* C13 *)

\* how many delivery attempts run r has started that have not come back
InFlight(r) == r.n_attempts - Cardinality(Attempted(r))

\* C13: a broadcast run never has more than one delivery attempt that has
\* not returned, it has one exactly while it waits at line 94, and it starts
\* an attempt only when every attempt it started before has returned
\* (delivered or failed).
C13_DeliveriesSequential ==
    /\ [](\A p \in Handlers :
            InBroadcast(h[p]) =>
                /\ InFlight(h[p]) \in {0, 1}
                /\ InFlight(h[p]) = 1 <=> h[p].pc = "bc_send"
                /\ h[p].pc = "bc_send" => h[p].cur \notin Attempted(h[p]))
    /\ [][\A p \in Handlers :
            (InBroadcast(h[p]) /\ InBroadcast(h'[p])) =>
                /\ h'[p].n_attempts \in {h[p].n_attempts, h[p].n_attempts + 1}
                /\ h'[p].n_attempts = h[p].n_attempts + 1
                     => /\ Cardinality(Attempted(h'[p])) = h[p].n_attempts
                        /\ h[p].pc = "bc_send" => h[p].cur \in Attempted(h'[p])]_vars

\* the second attempt of a run is outstanding, the first has failed, while
\* another run also has an attempt outstanding
C13_Witness ==
    \E p, q \in Handlers :
        /\ p # q
        /\ h[p].pc = "bc_send"
        /\ h[p].n_attempts = 2
        /\ Cardinality(Failed(h[p])) = 1
        /\ h[q].pc = "bc_send"

----------------------------------------------------------------------------
(* C14 *)

\* start handler r has added its sender and called save_users, and waits
\* for the greeting to be sent
C14_AddedAndSaved(r) ==
    /\ r.user_id \in users
    /\ users = r.start_users \cup {r.user_id}
    /\ r.saved # "none"
    /\ r.reply = Welcome(r.user_id)

\* C14 as stated: when start attempts its greeting, the sender U has been
\* added to `users` and `users` has been saved, so U is in `users` and in the
\* file, also when the reply then fails; the failure goes to error_handler
\* and later updates are served.
C14_Original ==
    \A p \in Handlers :
        h[p].pc = "start_reply" =>
            /\ C14_AddedAndSaved(h[p])
            /\ FileHolds(users)

\* C14 as amended: the same, U being in the file when the handler's save
\* went through.
C14_StartSavesBeforeReply ==
    /\ [](\A p \in Handlers :
            /\ h[p].pc = "start_reply"
                 => /\ C14_AddedAndSaved(h[p])
                    /\ h[p].saved = "ok" => FileHolds(users)
            /\ (h[p].pc = "error" /\ h[p].exc = "start_reply")
                 => /\ h[p].user_id \in users
                    /\ ENABLED ErrorHandler(p)
            /\ h[p].pc = "idle" => \A u \in Ids : ENABLED StartCall(p, u))
    /\ [][\A p \in Handlers :
            /\ (h[p].pc = "idle" /\ h'[p].cmd = "start")
                 => h'[p].pc = "start_reply"
            /\ (h[p].pc = "start_reply" /\ h'[p] # h[p])
                 => /\ h'[p].pc \in {"idle", "error"}
                    /\ users' = users
                    /\ file' = file
                    /\ h'[p].pc = "error"
                         => /\ h'[p].exc = "start_reply"
                            /\ h'[p].user_id = h[p].user_id
                            /\ h[p].saved = "ok" => h[p].user_id \in FileSet'
            /\ (h[p].pc = "error" /\ h'[p] # h[p]) => h'[p] = Idle]_vars

\* the greeting of a new sender failed: the sender is in `users` and in the
\* file
C14_Witness ==
    \E p \in Handlers :
        /\ h[p].pc = "error"
        /\ h[p].exc = "start_reply"
        /\ h[p].user_id \in users
        /\ FileHolds(users)

----------------------------------------------------------------------------
(* C15 *)

\* handler p calls save_users in this step
SaveStep(p) ==
    /\ h'[p] # h[p]
    /\ h'[p].pc \in {"start_reply", "bc_edit"}

\* what holds of every save, failed or not: the handler goes on to its
\* reply or edit, `users` has the handler's change, and a write that went
\* through left the file listing exactly `users`
C15_SaveSwallowed(p) ==
    /\ (h[p].pc = "idle" /\ h'[p].cmd = "start") => SaveStep(p)
    /\ (h[p].pc = "bc_send" /\ h'[p] # h[p]) => h'[p].pc \in {"bc_send", "bc_edit"}
    /\ SaveStep(p)
         => /\ h'[p].saved \in {"ok", "failed"}
            /\ h'[p].reply.t \in {"welcome", "result"}
            /\ h'[p].pc = "start_reply"
                 => users' = users \cup {h'[p].user_id}
            /\ h'[p].pc = "bc_edit"
                 => /\ users' \subseteq users
                    /\ (h[p].pc = "bc_send" /\ h[p].cur \in h'[p].perm_failed)
                         => h[p].cur \notin users'
                    /\ users' = h'[p].written
            /\ h'[p].saved = "ok" => (FileHolds(users))'

\* C15 as stated: a failing save in start or at the end of a run is not
\* raised, the reply or final edit is still sent, `users` keeps the change,
\* the file is what it was before, and the next save that goes through, by
\* any handler, makes the file list exactly `users`.
C15_Original ==
    [][\A p \in Handlers :
         /\ C15_SaveSwallowed(p)
         /\ (SaveStep(p) /\ h'[p].saved = "failed") => file' = file]_vars

\* C15 as amended: the same, the file being what it was before when it
\* could not be opened, and cut off (no longer JSON) when the write failed
\* after open() truncated it.
C15_FailedSaveIsSwallowed ==
    [][\A p \in Handlers :
         /\ C15_SaveSwallowed(p)
         /\ (SaveStep(p) /\ h'[p].saved = "failed") => file' \in {file, NotJson}]_vars

\* a start handler saved, then a run pruned an identifier and its save
\* failed, cutting the file off; both are still to send their reply
C15_Witness ==
    \E p, q \in Handlers :
        /\ h[q].pc = "start_reply"
        /\ h[q].saved = "ok"
        /\ h[p].pc = "bc_edit"
        /\ h[p].saved = "failed"
        /\ h[p].perm_failed # {}
        /\ h[p].perm_failed \cap users = {}
        /\ file = NotJson

----------------------------------------------------------------------------
(* C16 *)

\* a start command from x is handled in this step
StartOf(x) ==
    \E q \in Handlers :
        /\ h[q].pc = "idle"
        /\ h'[q].pc = "start_reply"
        /\ h'[q].user_id = x

\* C16 as stated: when a run has saved and goes to its final edit, none of
\* the identifiers whose delivery failed permanently in it is in `users` or
\* in the set the run wrote to the file, whatever start handlers and other
\* runs were interleaved with it.
C16_Original ==
    \A p \in Handlers :
        h[p].pc = "bc_edit" =>
            /\ h[p].perm_failed \cap users = {}
            /\ h[p].perm_failed \cap h[p].written = {}

\* C16 as amended: an identifier is out of `users` from the moment its
\* delivery failed permanently, only a start command from that identifier
\* brings it back, and a completing run writes `users` as it then is: so
\* such an identifier is in `users` and in the set the run wrote only if a
\* start command from it was handled after its delivery failed.
C16_PrunedUnlessRestarted ==
    [][\A p \in Handlers :
         /\ (h[p].pc = "bc_send" /\ h'[p] # h[p] /\ h[p].cur \in h'[p].perm_failed)
              => h[p].cur \notin users'
         /\ \A x \in h[p].perm_failed :
              (InBroadcast(h[p]) /\ x \notin users /\ x \in users') => StartOf(x)
         /\ (h[p].pc # "bc_edit" /\ h'[p].pc = "bc_edit")
              => /\ h'[p].written = users'
                 /\ (h'[p].perm_failed \cap users') \subseteq (h[p].perm_failed \cap users)
                 /\ h'[p].saved = "ok" => FileSet' = h'[p].written
         /\ (h[p].pc = "bc_edit" /\ h'[p] # h[p]) => users' = users]_vars

\* a run has completed and saved: an identifier whose delivery failed
\* permanently in it is in `users` and in the file, a start command from it
\* having been handled meanwhile
C16_Witness ==
    \E p \in Handlers :
        /\ h[p].pc = "bc_edit"
        /\ h[p].saved = "ok"
        /\ h[p].perm_failed \cap users # {}
        /\ h[p].perm_failed \cap h[p].written # {}
        /\ FileHolds(users)

----------------------------------------------------------------------------
(* C17 *)

\* the number after "Active users" in a final status text
ActiveUsers(r) == r.reply.n3

\* C17: the "Active users" number of a run's final status text is the size
\* of the set the run handed to save_users (and the number of entries of the
\* file right after a save that went through), under any interleaving; the
\* run's own steps, from its copy to its save, change `users` only by
\* removing identifiers that failed permanently in it, so the number is
\* snapshot size minus pruned count unless other handlers changed `users`
\* meanwhile.
C17_ActiveUsersIsWhatWasSaved ==
    /\ [](\A p \in Handlers :
            h[p].pc = "bc_edit" =>
                /\ h[p].reply.t = "result"
                /\ ActiveUsers(h[p]) = Cardinality(h[p].written)
                /\ h[p].perm_failed \subseteq h[p].snap
                /\ h[p].written = h[p].snap \ h[p].perm_failed
                     => ActiveUsers(h[p]) =
                            Cardinality(h[p].snap) - Cardinality(h[p].perm_failed))
    /\ [][\A p \in Handlers :
            /\ (h[p].pc = "bc_status" /\ h'[p].pc \in {"bc_send", "bc_edit"})
                 => h'[p].snap = users
            /\ (h[p].pc \in {"bc_status", "bc_send"} /\ h'[p] # h[p])
                 => /\ users' \subseteq users
                    /\ (users \ users') \subseteq (h'[p].perm_failed \ h[p].perm_failed)
            /\ (h[p].pc # "bc_edit" /\ h'[p].pc = "bc_edit")
                 => /\ ActiveUsers(h'[p]) = Cardinality(users')
                    /\ h'[p].saved = "ok"
                         => /\ (FileHolds(h[p].written))'
                            /\ ActiveUsers(h'[p]) = Len(file'.items)]_vars

\* a completed run that pruned an identifier reports a number that is not
\* snapshot size minus pruned count: another handler changed `users` during
\* the run
C17_Witness ==
    \E p \in Handlers :
        /\ h[p].pc = "bc_edit"
        /\ h[p].saved = "ok"
        /\ h[p].perm_failed # {}
        /\ ActiveUsers(h[p]) = Cardinality(h[p].written)
        /\ ActiveUsers(h[p]) # Cardinality(h[p].snap) - Cardinality(h[p].perm_failed)

----------------------------------------------------------------------------
(* C18 *)

\* in this step a delivery of a run that the admin identifier started fails
\* and the run removes exactly X from `users`
PrunedByAdminRun(X) ==
    \E p \in Handlers :
        /\ h[p].pc = "bc_send"
        /\ h'[p] # h[p]
        /\ h[p].cmd = "admin"
        /\ HasAdmin(env)
        /\ h[p].user_id = PyInt(AdminOf(env))
        /\ X = {h[p].cur}
        /\ h[p].cur \in h'[p].perm_failed

\* C18: `users` starts as the set loaded from the file; afterwards an
\* identifier comes into `users` only as the sender of a start command being
\* handled, and leaves it only as the recipient of a failed delivery in a
\* broadcast run started by the admin identifier; no step of an admin
\* command (denied, help or broadcast) adds an identifier.
C18_MembershipSourcesAndSink ==
    /\ users = load_users(file).val
    /\ [][/\ \A x \in users' \ users : StartOf(x)
          /\ users \ users' # {} => PrunedByAdminRun(users \ users')
          /\ \A p \in Handlers :
               (h'[p] # h[p] /\ "admin" \in {h[p].cmd, h'[p].cmd})
                    => users' \subseteq users]_vars

\* a run started by the admin has removed an identifier while a start
\* handler has added its sender, which was not in `users` before
C18_Witness ==
    \E p, q \in Handlers :
        /\ h[p].pc \in {"bc_send", "bc_edit"}
        /\ h[p].perm_failed # {}
        /\ h[p].perm_failed \cap users = {}
        /\ h[q].pc = "start_reply"
        /\ h[q].user_id \in users \ h[q].start_users

====
